---- MODULE Spec2Model ----
(***************************************************************************)
(* Model of src/app.py: the Streamlit produce scanner.  Every interaction  *)
(* of a browser session reruns the script top to bottom; the script is     *)
(* modelled as three steps per run (Scanner tab, Result tab, Data tab), so *)
(* that the runs of several sessions against the one scan_data.json file   *)
(* interleave between tabs.  Strings the code inspects (labels) are        *)
(* sequences of characters; timestamps are clock readings.                 *)
(***************************************************************************)
EXTENDS Integers, Sequences, FiniteSets, TLC

\* ---------------------------------------------------------------- bounds
\* Clock readings datetime.now() returns to Confirm & Save: 1..MaxTime.
MaxTime == 2
\* Probabilities are the fractions 0/PScale .. PScale/PScale.
PScale == 1
\* Length of the classifier's output vector.
NumClasses == 2

Sessions == {"s1", "s2"}
ProbVectors == [1..NumClasses -> 0..PScale]

\* ---------------------------------------------------------------- text
Digits == <<"0", "1", "2", "3", "4", "5", "6", "7", "8", "9">>

AppleHealthy == <<"A", "p", "p", "l", "e", "_", "H", "e", "a", "l", "t", "h", "y">>
AppleRotten == <<"A", "p", "p", "l", "e", "_", "R", "o", "t", "t", "e", "n">>
HealthyMarker == <<"H", "e", "a", "l", "t", "h", "y">>
RottenMarker == <<"R", "o", "t", "t", "e", "n">>

\* Python's `sub in s` on strings.
Contains(sub, s) ==
    \E i \in 0..(Len(s) - Len(sub)) : SubSeq(s, i + 1, i + Len(sub)) = sub

\* Python's str() of a non-negative integer.
RECURSIVE Str(_)
Str(n) == IF n < 10 THEN <<Digits[n + 1]>>
          ELSE Str(n \div 10) \o <<Digits[(n % 10) + 1]>>

DigitValue(c) == (CHOOSE d \in 1..10 : Digits[d] = c) - 1

\* Python's int() of a string of decimal digits.
RECURSIVE ParseInt(_)
ParseInt(s) == IF Len(s) = 0 THEN 0
               ELSE 10 * ParseInt(SubSeq(s, 1, Len(s) - 1)) + DigitValue(s[Len(s)])

\* ---------------------------------------------------------------- dicts and JSON
EmptyDict == [k \in {} |-> <<>>]

DictSet(d, k, v) == [x \in (DOMAIN d) \cup {k} |-> IF x = k THEN v ELSE d[x]]

\* A JSON object on disk: the set of its (key, value) members.
json_dump(data) == {<<k, data[k]>> : k \in DOMAIN data}

json_load(doc) ==
    [k \in {m[1] : m \in doc} |-> (CHOOSE m \in doc : m[1] = k)[2]]

\* Contents class_indices.json may have: stringified class index -> label.
LabelFiles ==
    { {<<Str(0), AppleHealthy>>, <<Str(1), AppleRotten>>},
      {<<Str(0), AppleHealthy>>} }

VARIABLES
    file,            \* scan_data.json: <<>> when absent, else <<document>>
    cache,           \* st.cache_resource of load_model_and_labels: <<>> or <<inv_map>>
    started,         \* session -> its st.session_state has been initialised
    pc,              \* session -> "idle", "tab2", "tab3", "rerun"
    clicked,         \* session -> the button whose click triggered the run
    uploaded,        \* session -> content of the file uploader
    rendered,        \* session -> buttons the current/last run has rendered
    scan_data,       \* st.session_state.scan_data
    scan_triggered,  \* st.session_state.scan_triggered
    prediction,      \* st.session_state.prediction: <<>> (None) or <<[label, prob]>>
    now,             \* the next reading of datetime.now()
    last             \* the step just taken: its inputs and what it displayed

vars == <<file, cache, started, pc, clicked, uploaded, rendered, scan_data,
          scan_triggered, prediction, now, last>>

\* ---------------------------------------------------------------- utilities
Range(f) == {f[x] : x \in DOMAIN f}

\* load_scan_data(): the parsed document, or {} when the file does not exist.
load_scan_data(f) == IF f # <<>> THEN json_load(f[1]) ELSE EmptyDict

\* save_scan_data(data): the file after open(DATA_FILE, "w") and json.dump.
save_scan_data(data) == <<json_dump(data)>>

\* {int(k): v for k, v in inv_map.items()}
IntKeys(labels) ==
    [i \in {ParseInt(m[1]) : m \in labels} |->
        (CHOOSE m \in labels : ParseInt(m[1]) = i)[2]]

\* load_model_and_labels() under st.cache_resource: a cached result is
\* returned as is; otherwise either file may be missing (FileNotFoundError,
\* nothing is cached) or the labels are read and the result cached.
load_model_and_labels(cached, modelExists, labelsExists, labels) ==
    IF cached # <<>> THEN [ok |-> TRUE, cache |-> cached]
    ELSE IF ~modelExists THEN [ok |-> FALSE, cache |-> <<>>]
    ELSE IF ~labelsExists THEN [ok |-> FALSE, cache |-> <<>>]
    ELSE [ok |-> TRUE, cache |-> <<IntKeys(labels)>>]

\* Faulty variant of np_argmax: the last index of the largest element.
np_argmax_last(probs) ==
    CHOOSE i \in 0..(Len(probs) - 1) :
        /\ \A j \in 0..(Len(probs) - 1) : probs[j + 1] <= probs[i + 1]
        /\ \A j \in (i + 1)..(Len(probs) - 1) : probs[j + 1] < probs[i + 1]

\* np.argmax: the first index (from 0) of the largest element.
np_argmax(probs) ==
    CHOOSE i \in 0..(Len(probs) - 1) :
        /\ \A j \in 0..(Len(probs) - 1) : probs[j + 1] <= probs[i + 1]
        /\ \A j \in 0..(i - 1) : probs[j + 1] < probs[i + 1]

\* inv_map.get(int(top_idx), str(top_idx))
ResolveLabel(inv_map, top_idx) ==
    IF top_idx \in DOMAIN inv_map THEN inv_map[top_idx] ELSE Str(top_idx)

\* The prediction the Scan Image handler stores for an output vector.
MakePrediction(inv_map, probs) ==
    [label |-> ResolveLabel(inv_map, np_argmax(probs)),
     prob |-> probs[np_argmax(probs) + 1]]

\* Faulty variant of ScanImage: scan_triggered is set before the try block,
\* so a failure leaves it set.
ScanImage_flag_first(sess, cached, modelExists, labelsExists, labels, output) ==
    LET got == load_model_and_labels(cached, modelExists, labelsExists, labels)
    IN  IF ~got.ok
        THEN [out |-> "scan_failed", cache |-> cached,
              prediction |-> sess.prediction, scan_triggered |-> TRUE]
        ELSE IF output = <<>>
        THEN [out |-> "scan_failed", cache |-> got.cache,
              prediction |-> sess.prediction, scan_triggered |-> TRUE]
        ELSE [out |-> "scanned", cache |-> got.cache,
              prediction |-> <<MakePrediction(got.cache[1], output[1])>>,
              scan_triggered |-> TRUE]

\* The Scan Image handler (the try block and its except): `sess` is the
\* session's fields before, `output` is <<>> when preprocessing or
\* model.predict raises and <<probs>> otherwise.  (image_to_scan, which the
\* handler also sets and nothing reads, is left out.)
ScanImage(sess, cached, modelExists, labelsExists, labels, output) ==
    LET got == load_model_and_labels(cached, modelExists, labelsExists, labels)
    IN  IF ~got.ok
        THEN [out |-> "scan_failed", cache |-> cached,
              prediction |-> sess.prediction,
              scan_triggered |-> sess.scan_triggered]
        ELSE IF output = <<>>
        THEN [out |-> "scan_failed", cache |-> got.cache,
              prediction |-> sess.prediction,
              scan_triggered |-> sess.scan_triggered]
        ELSE [out |-> "scanned", cache |-> got.cache,
              prediction |-> <<MakePrediction(got.cache[1], output[1])>>,
              scan_triggered |-> TRUE]

\* is_healthy / category of the Result tab.
Category(label) ==
    IF Contains(HealthyMarker, label) THEN "Segar (Fresh)"
    ELSE "Tidak Segar (Not Fresh)"

\* Faulty variant of append_timestamp: the timestamp goes to the front.
append_timestamp_front(data, label, t) ==
    LET d == IF label \notin DOMAIN data THEN DictSet(data, label, <<>>) ELSE data
    IN  DictSet(d, label, <<t>> \o d[label])

\* Faulty variant of append_timestamp: the label's sequence is replaced.
append_timestamp_reset(data, label, t) == DictSet(data, label, <<t>>)

\* Faulty variant of append_timestamp: the append sits in an else branch, so
\* a new label gets an empty sequence.
append_timestamp_else(data, label, t) ==
    IF label \notin DOMAIN data THEN DictSet(data, label, <<>>)
    ELSE DictSet(data, label, Append(data[label], t))

\* The in-memory store after the Confirm & Save handler's append.
append_timestamp(data, label, t) ==
    LET d == IF label \notin DOMAIN data THEN DictSet(data, label, <<>>) ELSE data
    IN  DictSet(d, label, Append(d[label], t))

\* {k: len(v) for k, v in scan_data.items() if marker in k}
Tally(data, marker) ==
    [k \in {x \in DOMAIN data : Contains(marker, x)} |-> Len(data[k])]

\* The Confirm & Save button is shown: scan_triggered and prediction.
Held(s) == scan_triggered[s] /\ prediction[s] # <<>>

\* Faulty variant of DataTabStore: the Data tab does not reload.
DataTabStore_memory(s) == scan_data[s]

\* The store the Data tab displays: reloaded from disk.
DataTabStore(s) == load_scan_data(file)

\* The store the Result tab displays.
ResultTabStore(s, data) == data

\* Faulty variant of ConfirmAndSave: the held prediction is not reset.
ConfirmAndSave_keep(data, pred, t) ==
    LET d == append_timestamp(data, pred.label, t)
    IN  [scan_data |-> d, file |-> save_scan_data(d),
         scan_triggered |-> TRUE, prediction |-> <<pred>>]

\* Variant of ConfirmAndSave that reloads the document before appending.
ConfirmAndSave_reload(data, pred, t) ==
    LET d == append_timestamp(load_scan_data(file), pred.label, t)
    IN  [scan_data |-> d, file |-> save_scan_data(d),
         scan_triggered |-> FALSE, prediction |-> <<>>]

\* The Confirm & Save handler: append, save, reset the held prediction.
ConfirmAndSave(data, pred, t) ==
    LET d == append_timestamp(data, pred.label, t)
    IN  [scan_data |-> d, file |-> save_scan_data(d),
         scan_triggered |-> FALSE, prediction |-> <<>>]

\* Faulty variant of ClearAllData: the empty store is not saved.
ClearAllData_unsaved == [scan_data |-> EmptyDict, file |-> file]

\* The Clear All Data handler: empty the store and save it.
ClearAllData ==
    [scan_data |-> EmptyDict, file |-> save_scan_data(EmptyDict)]

\* ---------------------------------------------------------------- steps
\* What a step records: who took it, what it was, what it put on screen, and
\* (Result tab) whether the session's in-memory store differed from the
\* document on disk when the step began.
StepRec(s, op, out) ==
    [sess |-> s, op |-> op, out |-> out, label |-> <<>>, t |-> 0,
     probs |-> <<>>, category |-> "", healthy |-> EmptyDict, rotten |-> EmptyDict,
     stale |-> (op = "tab2" /\ scan_data[s] # load_scan_data(file))]

\* The Scanner tab renders the Scan Image button under an uploaded image.
ScannerButtons(s, img) == IF img = "good" THEN {"scan"} ELSE {}

Init ==
    /\ file \in {<<>>, <<{}>>}
    /\ cache = <<>>
    /\ started = [s \in Sessions |-> FALSE]
    /\ pc = [s \in Sessions |-> "idle"]
    /\ clicked = [s \in Sessions |-> "none"]
    /\ uploaded = [s \in Sessions |-> "none"]
    /\ rendered = [s \in Sessions |-> {}]
    /\ scan_data = [s \in Sessions |-> EmptyDict]
    /\ scan_triggered = [s \in Sessions |-> FALSE]
    /\ prediction = [s \in Sessions |-> <<>>]
    /\ now = 1
    /\ last = [sess |-> "none", op |-> "init", out |-> "", label |-> <<>>,
               t |-> 0, probs |-> <<>>, category |-> "", healthy |-> EmptyDict,
               rotten |-> EmptyDict, stale |-> FALSE]

\* A browser opens the page: the first run initialises st.session_state
\* (scan_data is read from disk) and passes the Scanner tab, which has no file.
OpenPage(s) ==
    /\ ~started[s]
    /\ pc[s] = "idle"
    /\ started' = [started EXCEPT ![s] = TRUE]
    /\ scan_data' = [scan_data EXCEPT ![s] = load_scan_data(file)]
    /\ scan_triggered' = [scan_triggered EXCEPT ![s] = FALSE]
    /\ prediction' = [prediction EXCEPT ![s] = <<>>]
    /\ rendered' = [rendered EXCEPT ![s] = ScannerButtons(s, uploaded[s])]
    /\ pc' = [pc EXCEPT ![s] = "tab2"]
    /\ last' = StepRec(s, "open", "")
    /\ UNCHANGED <<now, file, cache, clicked, uploaded>>

\* The user puts an image into the uploader, or removes it: a rerun whose
\* Scanner tab shows the image and the Scan Image button.
Upload(s, img) ==
    /\ started[s]
    /\ pc[s] = "idle"
    /\ img \in {"none", "good"}
    /\ uploaded[s] # img
    /\ uploaded' = [uploaded EXCEPT ![s] = img]
    /\ rendered' = [rendered EXCEPT ![s] = ScannerButtons(s, img)]
    /\ pc' = [pc EXCEPT ![s] = "tab2"]
    /\ last' = StepRec(s, "upload", "")
    /\ UNCHANGED <<now, file, cache, started, clicked, scan_data, scan_triggered,
                   prediction>>

\* The user uploads a file PIL cannot identify: Image.open raises outside
\* any try, so this run, and every rerun while the file stays, ends in the
\* Scanner tab with only the uploader on the page.
UploadBad(s) ==
    /\ started[s]
    /\ pc[s] = "idle"
    /\ uploaded[s] # "bad"
    /\ uploaded' = [uploaded EXCEPT ![s] = "bad"]
    /\ rendered' = [rendered EXCEPT ![s] = {}]
    /\ last' = StepRec(s, "upload", "aborted")
    /\ UNCHANGED <<now, file, cache, started, pc, clicked, scan_data, scan_triggered,
                   prediction>>

\* The user clicks Confirm & Save or Clear All Data, which the last run
\* rendered: a rerun in which that st.button call returns True.  The
\* Scanner tab comes first and only renders.
Click(s, b) ==
    /\ pc[s] = "idle"
    /\ b \in {"confirm", "clear"}
    /\ b \in rendered[s]
    /\ (b = "confirm") =>
          (now + Cardinality({x \in Sessions : clicked[x] = "confirm"}) <= MaxTime)
    /\ clicked' = [clicked EXCEPT ![s] = b]
    /\ rendered' = [rendered EXCEPT ![s] = ScannerButtons(s, uploaded[s])]
    /\ pc' = [pc EXCEPT ![s] = "tab2"]
    /\ last' = StepRec(s, "click", b)
    /\ UNCHANGED <<now, file, cache, started, uploaded, scan_data, scan_triggered,
                   prediction>>

\* The user clicks Scan Image: a rerun whose Scanner tab runs the handler.
ClickScan(s, modelExists, labelsExists, labels, output) ==
    /\ pc[s] = "idle"
    /\ "scan" \in rendered[s]
    /\ LET r == ScanImage([prediction |-> prediction[s],
                           scan_triggered |-> scan_triggered[s]],
                          cache, modelExists, labelsExists, labels, output)
       IN  /\ cache' = r.cache
           /\ prediction' = [prediction EXCEPT ![s] = r.prediction]
           /\ scan_triggered' = [scan_triggered EXCEPT ![s] = r.scan_triggered]
           /\ last' = [StepRec(s, "scan", r.out) EXCEPT
                         !.probs = IF r.out = "scanned" THEN output[1] ELSE <<>>]
    /\ clicked' = [clicked EXCEPT ![s] = "scan"]
    /\ rendered' = [rendered EXCEPT ![s] = ScannerButtons(s, uploaded[s])]
    /\ pc' = [pc EXCEPT ![s] = "tab2"]
    /\ UNCHANGED <<now, file, started, uploaded, scan_data>>

\* The run st.rerun() starts after Clear All Data: no button is clicked.
Rerun(s) ==
    /\ pc[s] = "rerun"
    /\ rendered' = [rendered EXCEPT ![s] = ScannerButtons(s, uploaded[s])]
    /\ pc' = [pc EXCEPT ![s] = "tab2"]
    /\ last' = StepRec(s, "rerun", "")
    /\ UNCHANGED <<now, file, cache, started, clicked, uploaded, scan_data,
                   scan_triggered, prediction>>

\* Result tab, nothing held: the hint, then the totals of the in-memory store.
ResultInfo(s) ==
    /\ pc[s] = "tab2"
    /\ ~Held(s)
    /\ pc' = [pc EXCEPT ![s] = "tab3"]
    /\ last' = [StepRec(s, "tab2", "info") EXCEPT
                  !.healthy = Tally(ResultTabStore(s, scan_data[s]), HealthyMarker),
                  !.rotten = Tally(ResultTabStore(s, scan_data[s]), RottenMarker)]
    /\ UNCHANGED <<now, file, cache, started, clicked, uploaded, rendered, scan_data,
                   scan_triggered, prediction>>

\* Result tab, a prediction held and Confirm & Save not clicked.
ResultShow(s) ==
    /\ pc[s] = "tab2"
    /\ Held(s)
    /\ clicked[s] # "confirm"
    /\ rendered' = [rendered EXCEPT ![s] = @ \cup {"confirm"}]
    /\ pc' = [pc EXCEPT ![s] = "tab3"]
    /\ last' = [StepRec(s, "tab2", "shown") EXCEPT
                  !.label = prediction[s][1].label,
                  !.category = Category(prediction[s][1].label),
                  !.healthy = Tally(ResultTabStore(s, scan_data[s]), HealthyMarker),
                  !.rotten = Tally(ResultTabStore(s, scan_data[s]), RottenMarker)]
    /\ UNCHANGED <<now, file, cache, started, clicked, uploaded, scan_data,
                   scan_triggered, prediction>>

\* Result tab, a prediction held and Confirm & Save clicked; datetime.now()
\* reads t, and the clock has moved on by the next Confirm & Save.
ResultConfirm(s, t) ==
    /\ pc[s] = "tab2"
    /\ t = now
    /\ now' = now + 1
    /\ Held(s)
    /\ clicked[s] = "confirm"
    /\ LET r == ConfirmAndSave(scan_data[s], prediction[s][1], t)
       IN  /\ scan_data' = [scan_data EXCEPT ![s] = r.scan_data]
           /\ file' = r.file
           /\ scan_triggered' = [scan_triggered EXCEPT ![s] = r.scan_triggered]
           /\ prediction' = [prediction EXCEPT ![s] = r.prediction]
           /\ last' = [StepRec(s, "tab2", "saved") EXCEPT
                         !.label = prediction[s][1].label,
                         !.t = t,
                         !.category = Category(prediction[s][1].label),
                         !.healthy = Tally(ResultTabStore(s, r.scan_data), HealthyMarker),
                         !.rotten = Tally(ResultTabStore(s, r.scan_data), RottenMarker)]
    /\ rendered' = [rendered EXCEPT ![s] = @ \cup {"confirm"}]
    /\ pc' = [pc EXCEPT ![s] = "tab3"]
    /\ UNCHANGED <<cache, started, clicked, uploaded>>

\* Data tab, Clear All Data not clicked: reload the store, show its totals.
DataShow(s) ==
    /\ pc[s] = "tab3"
    /\ clicked[s] # "clear"
    /\ scan_data' = [scan_data EXCEPT ![s] = DataTabStore(s)]
    /\ rendered' = [rendered EXCEPT ![s] = @ \cup {"clear"}]
    /\ clicked' = [clicked EXCEPT ![s] = "none"]
    /\ pc' = [pc EXCEPT ![s] = "idle"]
    /\ last' = [StepRec(s, "tab3", "data") EXCEPT
                  !.healthy = Tally(DataTabStore(s), HealthyMarker),
                  !.rotten = Tally(DataTabStore(s), RottenMarker)]
    /\ UNCHANGED <<now, file, cache, started, uploaded, scan_triggered, prediction>>

\* Data tab, Clear All Data clicked: reload and show, then empty the store,
\* save it, and st.rerun() starts the script again.
DataClear(s) ==
    /\ pc[s] = "tab3"
    /\ clicked[s] = "clear"
    /\ scan_data' = [scan_data EXCEPT ![s] = ClearAllData.scan_data]
    /\ file' = ClearAllData.file
    /\ rendered' = [rendered EXCEPT ![s] = {}]
    /\ clicked' = [clicked EXCEPT ![s] = "none"]
    /\ pc' = [pc EXCEPT ![s] = "rerun"]
    /\ last' = [StepRec(s, "tab3", "cleared") EXCEPT
                  !.healthy = Tally(DataTabStore(s), HealthyMarker),
                  !.rotten = Tally(DataTabStore(s), RottenMarker)]
    /\ UNCHANGED <<now, cache, started, uploaded, scan_triggered, prediction>>

\* ---------------------------------------------------------------- specifications
\* A vector that puts all the probability on class i (from 1).
OneHot(i) == [j \in 1..NumClasses |-> IF j = i THEN PScale ELSE 0]

FullLabels == {<<Str(0), AppleHealthy>>, <<Str(1), AppleRotten>>}

\* Spec: every session uses the page; images are readable, the labels file
\* names both classes and the classifier is certain of one of the two.
Next ==
    \/ \E s \in Sessions : OpenPage(s)
    \/ \E s \in Sessions : Upload(s, "good")
    \/ \E s \in Sessions : \E b \in {"confirm", "clear"} : Click(s, b)
    \/ \E s \in Sessions : \E modelExists \in BOOLEAN, labelsExists \in BOOLEAN :
         \E output \in {<<>>, <<OneHot(1)>>, <<OneHot(2)>>} :
            ClickScan(s, modelExists, labelsExists, FullLabels, output)
    \/ \E s \in Sessions : Rerun(s)
    \/ \E s \in Sessions : ResultInfo(s)
    \/ \E s \in Sessions : ResultShow(s)
    \/ \E s \in Sessions : ResultConfirm(s, now)
    \/ \E s \in Sessions : DataShow(s)
    \/ \E s \in Sessions : DataClear(s)

Spec == Init /\ [][Next]_vars

\* SpecSolo: one session, with every input the code distinguishes: an
\* unreadable upload, removing the upload, a labels file that names only
\* class 0, and every output vector.
Solo == "s1"

NextSolo ==
    \/ OpenPage(Solo)
    \/ \E img \in {"none", "good"} : Upload(Solo, img)
    \/ UploadBad(Solo)
    \/ \E b \in {"confirm", "clear"} : Click(Solo, b)
    \/ \E modelExists \in BOOLEAN, labelsExists \in BOOLEAN :
         \E labels \in LabelFiles :
            \E output \in {<<>>} \cup {<<p>> : p \in ProbVectors} :
               ClickScan(Solo, modelExists, labelsExists, labels, output)
    \/ Rerun(Solo)
    \/ ResultInfo(Solo)
    \/ ResultShow(Solo)
    \/ ResultConfirm(Solo, now)
    \/ DataShow(Solo)
    \/ DataClear(Solo)

SpecSolo == Init /\ [][NextSolo]_vars

\* ---------------------------------------------------------------- properties
\* Length of the sequence a mapping holds for a label, 0 when absent.
LenOf(d, k) == IF k \in DOMAIN d THEN Len(d[k]) ELSE 0

SeqOf(d, k) == IF k \in DOMAIN d THEN d[k] ELSE <<>>

\* The mapping d with one timestamp added at the end of label k's sequence.
OneMore(d, k, t) ==
    [x \in (DOMAIN d) \cup {k} |-> IF x = k THEN SeqOf(d, k) \o <<t>> ELSE d[x]]

\* a is b with some elements left out, the rest in the same order.
RECURSIVE IsSubseq(_, _)
IsSubseq(a, b) ==
    IF a = <<>> THEN TRUE
    ELSE IF b = <<>> THEN FALSE
    ELSE IF Head(a) = Head(b) THEN IsSubseq(Tail(a), Tail(b))
    ELSE IsSubseq(a, Tail(b))

\* Every entry of mapping a is in mapping b, in the same order per label.
Preserved(a, b) ==
    \A k \in DOMAIN a : k \in DOMAIN b /\ IsSubseq(a[k], b[k])

Elements(q) == {q[i] : i \in 1..Len(q)}

\* The document on disk as load() returns it, now and after the step.
Doc == load_scan_data(file)
DocNext == load_scan_data(file')

\* C1 (as claimed): when a session confirms a held prediction for L at time
\* t, a load() right after returns a sequence for L that ends with t and is
\* exactly one longer than the sequence load() returned right before.
C1_AppendSinceLoad ==
    [][last'.out = "saved" =>
         /\ last'.label \in DOMAIN DocNext
         /\ DocNext[last'.label][Len(DocNext[last'.label])] = last'.t
         /\ Len(DocNext[last'.label]) = LenOf(Doc, last'.label) + 1]_vars

\* C1 (amended): after a confirm for L at t, load() returns a sequence for L
\* that ends with t and is exactly one longer than the sequence for L in the
\* confirming session's in-memory copy; it is one longer than what load()
\* returned right before whenever that copy equalled the document on disk.
C1_AppendSinceCopy ==
    [][last'.out = "saved" =>
         /\ last'.label \in DOMAIN DocNext
         /\ DocNext[last'.label][Len(DocNext[last'.label])] = last'.t
         /\ Len(DocNext[last'.label])
               = LenOf(scan_data[last'.sess], last'.label) + 1
         /\ (scan_data[last'.sess] = Doc) =>
               (Len(DocNext[last'.label]) = LenOf(Doc, last'.label) + 1)]_vars

\* A confirm has just added a second timestamp to a label's sequence.
C1_Witness ==
    /\ last.out = "saved"
    /\ LenOf(Doc, last.label) = 2

\* C2 (as claimed): no step other than a clear removes or reorders an entry
\* of the persisted document.
C2_OnlyClearRemoves ==
    [][last'.out # "cleared" => Preserved(Doc, DocNext)]_vars

\* C2 (amended): no scan or view-render step removes or reorders an entry of
\* the persisted document, and neither does a confirm by a session whose
\* in-memory copy equals the document on disk.
C2_OnlyClearOrStaleRemoves ==
    [][(/\ last'.out # "cleared"
        /\ (last'.out = "saved") => (scan_data[last'.sess] = Doc))
       => Preserved(Doc, DocNext)]_vars

\* A confirm from an up-to-date copy has just written a document that
\* already held an entry.
C2_Witness ==
    /\ last.out = "saved"
    /\ ~last.stale
    /\ \E k \in DOMAIN Doc : \E i \in 1..Len(Doc[k]) : Doc[k][i] # last.t

\* C3: a confirm persists only while a prediction is held; it adds exactly
\* one timestamp under the held label and leaves nothing held; a click on
\* Confirm with nothing held persists nothing; and a prediction comes to be
\* held only by a successful scan of that session.
C3_ScanLifecycle ==
    [][/\ (last'.out = "saved") =>
             /\ scan_triggered[last'.sess]
             /\ prediction[last'.sess] # <<>>
             /\ last'.label = prediction[last'.sess][1].label
             /\ DocNext = OneMore(scan_data[last'.sess], last'.label, last'.t)
             /\ prediction'[last'.sess] = <<>>
             /\ ~scan_triggered'[last'.sess]
       /\ (/\ last'.op = "tab2"
           /\ ~(scan_triggered[last'.sess] /\ prediction[last'.sess] # <<>>))
             => (file' = file /\ scan_data' = scan_data)
       /\ \A x \in Sessions :
             (/\ ~(scan_triggered[x] /\ prediction[x] # <<>>)
              /\ scan_triggered'[x] /\ prediction'[x] # <<>>)
             => (last'.out = "scanned" /\ last'.sess = x)]_vars

\* Confirm & Save was clicked a second time for the same scan: the Result
\* tab found nothing held.
C3_Witness ==
    /\ last.op = "tab2"
    /\ last.out = "info"
    /\ clicked[last.sess] = "confirm"

\* C4: right after the clear-all action load() returns the empty mapping and
\* the clearing session's in-memory store is empty.
C4_ClearEmpties ==
    (last.out = "cleared") =>
        (DOMAIN Doc = {} /\ file # <<>> /\ DOMAIN scan_data[last.sess] = {})

\* A clear by a session holding a prediction, of a store another session
\* saw entries in.
C4_Witness ==
    /\ last.out = "cleared"
    /\ scan_triggered[last.sess] /\ prediction[last.sess] # <<>>
    /\ \E x \in Sessions : DOMAIN scan_data[x] # {}

\* C5: every key of every session's in-memory store and of the persisted
\* document maps to a non-empty sequence.
C5_NoEmptySequence ==
    /\ \A s \in Sessions : \A k \in DOMAIN scan_data[s] : Len(scan_data[s][k]) > 0
    /\ \A k \in DOMAIN Doc : Len(Doc[k]) > 0

\* The document and a session's store hold a key.
C5_Witness ==
    /\ DOMAIN Doc # {}
    /\ \E s \in Sessions : DOMAIN scan_data[s] # {}

\* i (from 0) is the first index at which the vector p is largest.
IsTopIndex(p, i) ==
    /\ i \in 0..(Len(p) - 1)
    /\ \A j \in 0..(Len(p) - 1) : p[j + 1] <= p[i + 1]
    /\ \A j \in 0..(Len(p) - 1) : (p[j + 1] = p[i + 1]) => (i <= j)

\* C6 (as claimed): a successful scan holds a prediction whose label is in
\* the label mapping, namely the mapping's label for the index of the
\* largest probability, with that probability, which lies in [0,1].
C6_LabelInMapping ==
    (last.out = "scanned") =>
        \E i \in 0..(Len(last.probs) - 1) :
            /\ IsTopIndex(last.probs, i)
            /\ prediction[last.sess][1].label \in Range(cache[1])
            /\ i \in DOMAIN cache[1]
            /\ prediction[last.sess][1].label = cache[1][i]
            /\ prediction[last.sess][1].prob = last.probs[i + 1]
            /\ prediction[last.sess][1].prob \in 0..PScale

\* C6 (amended): a successful scan holds a prediction whose label is the
\* mapping's label for the first index of the largest probability when the
\* mapping has that index, and the decimal string of the index otherwise;
\* its probability is that largest probability, which lies in [0,1].
C6_LabelOrIndex ==
    (last.out = "scanned") =>
        \E i \in 0..(Len(last.probs) - 1) :
            /\ IsTopIndex(last.probs, i)
            /\ (i \in DOMAIN cache[1]) =>
                  (prediction[last.sess][1].label = cache[1][i])
            /\ (i \notin DOMAIN cache[1]) =>
                  /\ prediction[last.sess][1].label = <<Digits[i + 1]>>
                  /\ prediction[last.sess][1].label \notin Range(cache[1])
            /\ prediction[last.sess][1].prob = last.probs[i + 1]
            /\ prediction[last.sess][1].prob \in 0..PScale
            /\ scan_triggered[last.sess]

\* A scan whose top index the label mapping lacks, the top not being the
\* first class.
C6_Witness ==
    /\ last.out = "scanned"
    /\ prediction[last.sess][1].label \notin Range(cache[1])
    /\ last.probs[1] < prediction[last.sess][1].prob

\* C7: a label is fresh exactly when it contains the healthy marker, and
\* every label of the store the Result tab shows is counted in exactly one
\* of its two tallies, the one matching the category shown for that label.
C7_OneTallyPerLabel ==
    /\ (last.out \in {"shown", "saved"}) =>
          (last.category =
              IF Contains(HealthyMarker, last.label) THEN "Segar (Fresh)"
              ELSE "Tidak Segar (Not Fresh)")
    /\ (last.op = "tab2") =>
          \A k \in DOMAIN scan_data[last.sess] :
              /\ (k \in DOMAIN last.healthy) # (k \in DOMAIN last.rotten)
              /\ (k \in DOMAIN last.healthy) <=> Contains(HealthyMarker, k)

\* C8: a failed scan leaves the held prediction, the scan_triggered flag,
\* every in-memory store and the persisted document as they were; the run
\* goes on to the Result tab with the Scan Image button on the page, and a
\* scan from that state succeeds when the files are there and inference works.
C8_FailedScanContained ==
    [][(last'.out = "scan_failed") =>
          /\ prediction' = prediction
          /\ scan_triggered' = scan_triggered
          /\ scan_data' = scan_data
          /\ file' = file
          /\ pc'[last'.sess] = "tab2"
          /\ "scan" \in rendered'[last'.sess]
          /\ \A p \in ProbVectors :
                ScanImage([prediction |-> prediction'[last'.sess],
                           scan_triggered |-> scan_triggered'[last'.sess]],
                          cache', TRUE, TRUE, FullLabels, <<p>>).out = "scanned"]_vars

\* A scan failed while an earlier prediction was held and the store on disk
\* had entries.
C8_Witness ==
    /\ last.out = "scan_failed"
    /\ prediction[last.sess] # <<>>
    /\ DOMAIN Doc # {}

\* The two tallies of a mapping.
Counts(d) ==
    [healthy |-> [k \in {x \in DOMAIN d : Contains(HealthyMarker, x)} |-> Len(d[k])],
     rotten |-> [k \in {x \in DOMAIN d : Contains(RottenMarker, x)} |-> Len(d[k])]]

Shown(r) == [healthy |-> r.healthy, rotten |-> r.rotten]

\* C9 (as claimed): the counts the Result view and the Data view show are
\* those of the persisted document at the moment they are displayed.
C9_ViewsShowDisk ==
    [][/\ (last'.op = "tab2") => (Shown(last') = Counts(DocNext))
       /\ (last'.op = "tab3") => (Shown(last') = Counts(Doc))]_vars

\* C9 (amended): the Data view reloads the store when it renders and shows
\* the counts of the persisted document at that moment; the Result view
\* shows the counts of the session's in-memory store, which are those of
\* the persisted document when the run has just confirmed or when the
\* in-memory store equalled the document as the Result tab began.
C9_DataShowsDisk ==
    [][/\ (last'.op = "tab3") =>
             /\ Shown(last') = Counts(Doc)
             /\ (last'.out = "data") => (scan_data'[last'.sess] = Doc)
       /\ (last'.op = "tab2") =>
             /\ Shown(last') = Counts(scan_data'[last'.sess])
             /\ (last'.out = "saved" \/ scan_data[last'.sess] = Doc)
                   => (Shown(last') = Counts(DocNext))]_vars

\* The Result view has just shown counts that are not those on disk.
C9_Witness ==
    /\ last.op = "tab2"
    /\ Shown(last) # Counts(Doc)

\* C10: after a confirm the persisted document is exactly the confirming
\* session's in-memory mapping, its copy from before plus the new timestamp,
\* whatever was on disk; so when the document on disk was that copy plus
\* another session's timestamp, that timestamp is gone afterwards.  Every
\* Data tab leaves the session's copy equal to the document on disk.
C10_LastWriterWins ==
    [][/\ (last'.out = "saved") =>
             /\ file' = <<{<<k, scan_data'[last'.sess][k]>> :
                              k \in DOMAIN scan_data'[last'.sess]}>>
             /\ DocNext = OneMore(scan_data[last'.sess], last'.label, last'.t)
             /\ \A k \in DOMAIN Doc : \A t \in Elements(Doc[k]) :
                   (Doc = OneMore(scan_data[last'.sess], k, t))
                      => (t \notin Elements(SeqOf(DocNext, k)))
       /\ (last'.out = "data") => (scan_data'[last'.sess] = DocNext)]_vars

\* A confirm has just overwritten a document that held an entry the
\* confirming session had not loaded.
C10_Witness ==
    /\ last.out = "saved"
    /\ last.stale
    /\ last.t > 1
    /\ \A k \in DOMAIN Doc : \A t \in Elements(Doc[k]) : t = last.t

====
